---- MODULE Spec2Model ----
(***************************************************************************)
(* Model of the Hopscotch HashMap of src/hash_map_review.h: the Bucket,    *)
(* the BucketArray (neighborhood table) and the HashMap facade with its    *)
(* overflow list.  Physical slot i of the C++ vector is element i + 1 of   *)
(* the TLA+ sequence; all indices below are the C++ (0-based) indices.     *)
(***************************************************************************)
EXTENDS Integers, Sequences, FiniteSets, TLC

\* ---------------------------------------------------------------- constants
NEXT == 32
INITIAL_SIZE == 32
\* the load-factor limits as fractions <<numerator, denominator>>
MIN_LOAD_FACTOR == <<1, 10>>
MAX_LOAD_FACTOR == <<1, 2>>

\* ------------------------------------------------------------------- bounds
\* a constructor range holds MaxBulk - 1 .. MaxBulk + 1 colliding "bulk" keys
MaxBulk == 32
\* the non-default values callers pass are 1..MaxVal
MaxVal == 2

\* KeyType is int; ValueType() and KeyType() are 0
DefaultValue == 0
DefaultKey == 0
Values == 1..MaxVal
\* a constructor range may end with MaxFill "fill" keys
MaxFill == 16
\* bulk keys all hash to ideal index 0 while the capacity is 32, 64 or 128
BulkStride == 4 * NEXT
BulkKeys == {BulkStride * i : i \in 1..(MaxBulk + 1)}
\* end keys all hash to the last ideal index, capacity - 1
EndKeys == {BulkStride * i - 1 : i \in 1..(MaxBulk + 1)}
\* fill keys have ideal indices of their own, beyond the window of index 0
\* once the capacity is 64 or more
FillKeys == {NEXT + i : i \in 1..MaxFill}
\* keys the driver uses freely: one with ideal index 0, one with ideal index 2
FreeKeys == {0, 2}
Keys == BulkKeys \cup EndKeys \cup FillKeys \cup FreeKeys
None == -1

\* Hash = std::hash<int>: the identity on the keys used here
hash_func_(key) == key

\* ------------------------------------------------------------------- Bucket
\* Bucket(): pair_ value-initialised, is_occupied_ = false
DefaultBucket == [occ |-> FALSE, key |-> DefaultKey, val |-> DefaultValue]

\* Bucket(const StorageType&)
NewBucket(pair) == [occ |-> TRUE, key |-> pair.key, val |-> pair.val]

\* Bucket::operator=: the pair is copied only from an occupied source
BucketAssign(dst, src) == IF src.occ THEN src ELSE [dst EXCEPT !.occ = FALSE]

\* Bucket(const Bucket&): default-initialise, then operator=
BucketCopy(src) == BucketAssign(DefaultBucket, src)

IsOccupied(b) == b.occ

HasKey(b, other_key) == IsOccupied(b) /\ b.key = other_key

\* Bucket::Set
BucketSet(b, new_pair) == BucketAssign(b, NewBucket(new_pair))

\* Bucket::Erase
BucketErase(b) == [b EXCEPT !.occ = FALSE]

\* -------------------------------------------------------------- BucketArray
\* the element of a one-element set.  Only({F(x) : x \in {e}}) is F(e) with e
\* evaluated once: the model uses it wherever C++ stores a result in a local
Only(S) == CHOOSE x \in S : TRUE

\* the least element of a non-empty set of integers
Least(S) == CHOOSE j \in S : \A k \in S : j <= k

\* slot i of a vector
Slot(array, i) == array[i + 1]

\* BucketArray(size, hash)
NewBucketArray(size) ==
    [array |-> [i \in 1..(size + NEXT - 1) |-> DefaultBucket], count |-> 0]

ArraySize(array) == Len(array)

GetIndex(array, key) == hash_func_(key) % (ArraySize(array) - NEXT + 1)

\* std::swap(array_[i], array_[j]) through Bucket's copy constructor/assignment
SwapBuckets(array, i, j) ==
    LET tmp == BucketCopy(Slot(array, i))
        a1 == [array EXCEPT ![i + 1] = BucketAssign(@, Slot(array, j))]
    IN [a1 EXCEPT ![j + 1] = BucketAssign(@, tmp)]

\* variant: the first loop takes for free only an unoccupied slot that holds
\* the default key, passing over those that still hold the key of a pair that
\* was erased or moved away
FirstEmpty_SkipsStale(array, i) ==
    Only({IF free = {} THEN ArraySize(array) ELSE Least(free) :
             free \in {{j \in i..(ArraySize(array) - 1) :
                            /\ ~IsOccupied(Slot(array, j))
                            /\ Slot(array, j).key = DefaultKey}}})

\* first loop of Insert: first unoccupied slot at or after i, or array_.size()
FirstEmpty(array, i) ==
    Only({IF free = {} THEN ArraySize(array) ELSE Least(free) :
             free \in {{j \in i..(ArraySize(array) - 1) :
                            ~IsOccupied(Slot(array, j))}}})

\* variant: the window test of the scan off by one (<= for <)
CanMove_Inclusive(array, pot_bucket, empty_bucket) ==
    empty_bucket <= GetIndex(array, Slot(array, pot_bucket).key) + NEXT

\* eligibility test of the displacement scan (line 123)
CanMove(array, pot_bucket, empty_bucket) ==
    empty_bucket < GetIndex(array, Slot(array, pot_bucket).key) + NEXT

\* the slots whose key one pass of the inner for loop reads: the loop starts
\* at pot_bucket, a size_t (a difference below 0 wraps to a value above every
\* index, and the loop body never runs), and ends with the slot it swaps
Scanned(pot_bucket, empty_bucket, movable) ==
    IF pot_bucket < 0 THEN {}
    ELSE IF movable = {} THEN pot_bucket..(empty_bucket - 1)
         ELSE pot_bucket..Least(movable)

\* the inner for loop of Insert over the slots pot_bucket .. empty_bucket - 1.
\* The loop swaps at the first slot that passes the test, sets empty_bucket to
\* that slot and so ends with its next ++pot_bucket: at most one swap per pass.
\* swaps counts the std::swap calls made so far; safe tells that pot_bucket
\* did not wrap and that every slot whose key was read was occupied
ScanWindow(array, empty_bucket, pot_bucket, swapped, swaps) ==
    Only({IF movable = {}
          THEN [array |-> array, empty |-> empty_bucket, swapped |-> swapped,
                swaps |-> swaps,
                safe |-> /\ pot_bucket >= 0
                         /\ \A j \in Scanned(pot_bucket, empty_bucket, movable) :
                                IsOccupied(Slot(array, j))]
          ELSE [array |-> SwapBuckets(array, Least(movable), empty_bucket),
                empty |-> Least(movable), swapped |-> TRUE,
                swaps |-> swaps + 1,
                safe |-> /\ pot_bucket >= 0
                         /\ \A j \in Scanned(pot_bucket, empty_bucket, movable) :
                                IsOccupied(Slot(array, j))] :
             movable \in {{j \in (IF pot_bucket < 0 THEN {}
                                   ELSE pot_bucket..(empty_bucket - 1)) :
                               CanMove(array, j, empty_bucket)}}})

\* the while loop of Insert; safe tells that every pass was safe and that
\* every swap lowered empty_bucket
RECURSIVE Displace(_, _, _, _, _)
Displace(array, arr_index, empty_bucket, swapped, swaps) ==
    IF arr_index + NEXT <= empty_bucket
    THEN Only({IF r.swapped
               THEN Only({[d EXCEPT !.safe = /\ d.safe
                                             /\ r.safe
                                             /\ r.empty < empty_bucket] :
                             d \in {Displace(r.array, arr_index, r.empty, TRUE,
                                              r.swaps)}})
               ELSE r :
                  r \in {ScanWindow(array, empty_bucket,
                                    empty_bucket - NEXT + 1, FALSE, swaps)}})
    ELSE [array |-> array, empty |-> empty_bucket, swapped |-> swapped,
          swaps |-> swaps, safe |-> TRUE]

\* variant: Insert reports the ideal slot instead of the slot it wrote
InsertDone_RefAtIdeal(t, pair, arr_index, r) ==
    IF r.swapped
    THEN [ok |-> TRUE,
          array |-> [r.array EXCEPT ![r.empty + 1] = BucketSet(@, pair)],
          count |-> t.count + 1, pos |-> arr_index, swaps |-> r.swaps,
          safe |-> r.safe]
    ELSE [ok |-> FALSE, array |-> r.array, count |-> t.count, pos |-> None,
          swaps |-> r.swaps, safe |-> r.safe]

\* variant: Insert counts the pair before it knows that a slot was found
InsertDone_CountOnFail(t, pair, arr_index, r) ==
    IF r.swapped
    THEN [ok |-> TRUE,
          array |-> [r.array EXCEPT ![r.empty + 1] = BucketSet(@, pair)],
          count |-> t.count + 1, pos |-> r.empty, swaps |-> r.swaps,
          safe |-> r.safe]
    ELSE [ok |-> FALSE, array |-> r.array, count |-> t.count + 1,
          pos |-> None, swaps |-> r.swaps, safe |-> r.safe]

\* the end of Insert (lines 133-139), r being the outcome of the while loop:
\* ok is the returned bool, pos the slot written on success, swaps the number
\* of displacement swaps, safe what Displace reported
InsertDone(t, pair, arr_index, r) ==
    IF r.swapped
    THEN [ok |-> TRUE,
          array |-> [r.array EXCEPT ![r.empty + 1] = BucketSet(@, pair)],
          count |-> t.count + 1, pos |-> r.empty, swaps |-> r.swaps,
          safe |-> r.safe]
    ELSE [ok |-> FALSE, array |-> r.array, count |-> t.count, pos |-> None,
          swaps |-> r.swaps, safe |-> r.safe]

\* Insert from line 115 on, empty_bucket being the outcome of the first loop
InsertFrom(t, pair, arr_index, empty_bucket) ==
    IF empty_bucket = ArraySize(t.array)
    THEN [ok |-> FALSE, array |-> t.array, count |-> t.count, pos |-> None,
          swaps |-> 0, safe |-> TRUE]
    ELSE Only({InsertDone(t, pair, arr_index, r) :
                  r \in {Displace(t.array, arr_index, empty_bucket, TRUE, 0)}})

\* BucketArray::Insert on table t = [array, count]
Insert(t, pair) ==
    Only({InsertFrom(t, pair, x[1], x[2]) :
             x \in {<<GetIndex(t.array, pair.key),
                      FirstEmpty(t.array, GetIndex(t.array, pair.key))>>}})

\* the loop of Find over slots i .. stop - 1: the first slot that has the key,
\* or array_.size() for array_.end()
FindFrom(array, key, i, stop) ==
    Only({IF hits = {} THEN ArraySize(array) ELSE Least(hits) :
             hits \in {{j \in i..(stop - 1) : HasKey(Slot(array, j), key)}}})

\* variant: Find scans one slot less than the window
Find_ShortWindow(array, key) ==
    Only({FindFrom(array, key, i, i + NEXT - 1) :
             i \in {GetIndex(array, key)}})

\* BucketArray::Find
Find(array, key) ==
    Only({FindFrom(array, key, i, i + NEXT) : i \in {GetIndex(array, key)}})

\* variant: Erase does not decrement pairs_count_
EraseAt_KeepCount(t, it) ==
    IF it # ArraySize(t.array)
    THEN [ok |-> TRUE, array |-> [t.array EXCEPT ![it + 1] = BucketErase(@)],
          count |-> t.count]
    ELSE [ok |-> FALSE, array |-> t.array, count |-> t.count]

\* variant: Erase decrements pairs_count_ whether or not the key was found
EraseAt_AlwaysDec(t, it) ==
    IF it # ArraySize(t.array)
    THEN [ok |-> TRUE, array |-> [t.array EXCEPT ![it + 1] = BucketErase(@)],
          count |-> t.count - 1]
    ELSE [ok |-> FALSE, array |-> t.array, count |-> t.count - 1]

\* Erase from line 145 on, it being the iterator Find returned
EraseAt(t, it) ==
    IF it # ArraySize(t.array)
    THEN [ok |-> TRUE, array |-> [t.array EXCEPT ![it + 1] = BucketErase(@)],
          count |-> t.count - 1]
    ELSE [ok |-> FALSE, array |-> t.array, count |-> t.count]

\* BucketArray::Erase
Erase(t, key) == Only({EraseAt(t, it) : it \in {Find(t.array, key)}})

\* variant: the load factor is taken over the capacity, not the array size
LoadFactor_ByCapacity(t) == <<t.count, ArraySize(t.array) - NEXT + 1>>

\* BucketArray::LoadFactor as the fraction <<pairs_count_, array_.size()>>
LoadFactor(t) == <<t.count, ArraySize(t.array)>>

\* comparison of fractions with positive denominators
FracLess(p, q) == p[1] * q[2] < q[1] * p[2]

\* array_ = other.array_ (std::vector copy assignment): slots that exist in
\* both are assigned with Bucket::operator=, a longer source reallocates and
\* copy-constructs every slot
VectorAssign(dst, src) ==
    IF Len(src) > Len(dst)
    THEN [i \in 1..Len(src) |-> BucketCopy(src[i])]
    ELSE [i \in 1..Len(src) |-> BucketAssign(dst[i], src[i])]

\* ------------------------------------------------------------------ HashMap
\* a map value m = [array, count, list]: b_array_.array_,
\* b_array_.pairs_count_ and list_ (every list bucket is occupied, so only
\* its pair is kept)
VARIABLES array_, pairs_count_, list_, ret, first_ins

vars == <<array_, pairs_count_, list_, ret, first_ins>>

Map == [array |-> array_, count |-> pairs_count_, list |-> list_]

Pair(key, val) == [key |-> key, val |-> val]

\* HashMap(hash): b_array_(INITIAL_SIZE, hash), empty list_
EmptyMap ==
    [array |-> NewBucketArray(INITIAL_SIZE).array,
     count |-> NewBucketArray(INITIAL_SIZE).count, list |-> <<>>]

size(m) == m.count + Len(m.list)

empty(m) == size(m) = 0

\* BucketArray::FirstOccupiedBucket
FirstOccupiedBucket(array, iter) ==
    Only({IF occ = {} THEN ArraySize(array) ELSE Least(occ) :
             occ \in {{j \in iter..(ArraySize(array) - 1) :
                           IsOccupied(Slot(array, j))}}})

\* iterators are [b, l]: b_array_iter_ as a slot index (ArraySize for End())
\* and list_iter_ as a 0-based list position (Len for list_.end())
\* variant: begin() starts at slot 0 whether or not it is occupied
begin_AtFirstSlot(m) == [b |-> 0, l |-> 0]

begin(m) == [b |-> FirstOccupiedBucket(m.array, 0), l |-> 0]

end(m) == [b |-> ArraySize(m.array), l |-> Len(m.list)]

\* RawIterator::operator++
IterNext(m, it) ==
    IF it.b # ArraySize(m.array)
    THEN [it EXCEPT !.b = FirstOccupiedBucket(m.array, it.b + 1)]
    ELSE [it EXCEPT !.l = it.l + 1]

\* RawIterator::operator*
IterDeref(m, it) ==
    IF it.b # ArraySize(m.array)
    THEN Pair(Slot(m.array, it.b).key, Slot(m.array, it.b).val)
    ELSE m.list[it.l + 1]

\* n passes of the loop for (it = from; it != end(); ++it): the pairs visited
\* and the iterator reached.  The passes are split in halves to keep the
\* evaluation shallow
RECURSIVE Walk(_, _, _)
Walk(m, from, n) ==
    IF n = 0 \/ from = end(m)
    THEN [seq |-> <<>>, it |-> from]
    ELSE IF n = 1
         THEN [seq |-> <<IterDeref(m, from)>>, it |-> IterNext(m, from)]
         ELSE Only({Only({[seq |-> a.seq \o c.seq, it |-> c.it] :
                             c \in {Walk(m, a.it, n - (n \div 2))}}) :
                       a \in {Walk(m, from, n \div 2)}})

\* the pairs a range-for over the map visits, in order: the loop makes one
\* pass per occupied slot and one per list bucket
Iterate(m) ==
    Only({Walk(m, it, ArraySize(m.array) + Len(m.list)).seq :
             it \in {begin(m)}})

\* position of key in the overflow list (0-based), or Len for list_.end()
ListFind(list, key) ==
    Only({IF hits = {} THEN Len(list) ELSE Least(hits) - 1 :
             hits \in {{i \in 1..Len(list) : list[i].key = key}}})

\* HashMap::find from line 343 on, it being the iterator b_array_.Find returned
FindIn(m, key, it) ==
    IF it # ArraySize(m.array)
    THEN [b |-> it, l |-> 0]
    ELSE [b |-> ArraySize(m.array), l |-> ListFind(m.list, key)]

\* HashMap::find
find(m, key) == Only({FindIn(m, key, it) : it \in {Find(m.array, key)}})

\* variant: Reconstruct drops the pairs the new table cannot place
ReinsertOne_DropFailed(tmp, pair, r) ==
    [array |-> r.array, count |-> r.count, list |-> tmp.list,
     safe |-> tmp.safe /\ r.safe]

\* one pass of the loop body of Reconstruct: r is what tmp_map.Insert returned;
\* safe tells that every tmp_map.Insert so far was safe
ReinsertOne(tmp, pair, r) ==
    [array |-> r.array, count |-> r.count,
     list |-> IF r.ok THEN tmp.list ELSE Append(tmp.list, pair),
     safe |-> tmp.safe /\ r.safe]

\* the loop of Reconstruct over pairs[lo .. hi] of the old map, split in
\* halves to keep the evaluation shallow
RECURSIVE Reinsert(_, _, _, _)
Reinsert(tmp, pairs, lo, hi) ==
    IF lo > hi THEN tmp
    ELSE IF lo = hi
         THEN Only({ReinsertOne(tmp, pairs[lo], r) :
                       r \in {Insert(tmp, pairs[lo])}})
         ELSE Only({Reinsert(half, pairs, ((lo + hi) \div 2) + 1, hi) :
                       half \in {Reinsert(tmp, pairs, lo, (lo + hi) \div 2)}})

\* variant: Reconstruct resizes whatever change_size says
NewSize_AlwaysResize(m, change_size) ==
    IF (IF FracLess(LoadFactor(m), MIN_LOAD_FACTOR)
        THEN (ArraySize(m.array) - NEXT + 1) \div 2
        ELSE (ArraySize(m.array) - NEXT + 1) * 2) < INITIAL_SIZE
    THEN INITIAL_SIZE
    ELSE IF FracLess(LoadFactor(m), MIN_LOAD_FACTOR)
         THEN (ArraySize(m.array) - NEXT + 1) \div 2
         ELSE (ArraySize(m.array) - NEXT + 1) * 2

\* variant: Reconstruct does not clamp new_size at INITIAL_SIZE
NewSize_NoClamp(m, change_size) ==
    IF change_size
    THEN IF FracLess(LoadFactor(m), MIN_LOAD_FACTOR)
         THEN (ArraySize(m.array) - NEXT + 1) \div 2
         ELSE (ArraySize(m.array) - NEXT + 1) * 2
    ELSE ArraySize(m.array) - NEXT + 1

\* new_size of Reconstruct (lines 407-415)
NewSize(m, change_size) ==
    LET old_size == ArraySize(m.array) - NEXT + 1
        sized == IF change_size
                 THEN IF FracLess(LoadFactor(m), MIN_LOAD_FACTOR)
                      THEN old_size \div 2
                      ELSE old_size * 2
                 ELSE old_size
    IN IF sized < INITIAL_SIZE THEN INITIAL_SIZE ELSE sized

\* tmp_map and tmp_list of Reconstruct before the loop
FreshMap(new_size) ==
    [array |-> NewBucketArray(new_size).array,
     count |-> NewBucketArray(new_size).count, list |-> <<>>, safe |-> TRUE]

\* variant: Reconstruct forgets to replace list_
Adopt_KeepList(m, tmp) ==
    [array |-> VectorAssign(m.array, tmp.array), count |-> tmp.count,
     list |-> m.list, safe |-> tmp.safe]

\* the last two lines of Reconstruct: b_array_ = tmp_map; list_ = tmp_list
Adopt(m, tmp) ==
    [array |-> VectorAssign(m.array, tmp.array), count |-> tmp.count,
     list |-> tmp.list, safe |-> tmp.safe]

\* HashMap::Reconstruct
Reconstruct(m, change_size, clear) ==
    Only({Adopt(m, tmp) :
             tmp \in {IF clear THEN start
                      ELSE Only({Reinsert(start, pairs, 1, Len(pairs)) :
                                    pairs \in {Iterate(m)}}) :
                         start \in {FreshMap(NewSize(m, change_size))}}})

\* the load-factor test of ForceInsert.  The C++ compares long doubles; the
\* array size is always odd (capacity + 31), so the quotient is never 1/10 or
\* 1/2 and the comparison of fractions is exact.
NeedsReconstruct(m) ==
    \/ FracLess(MAX_LOAD_FACTOR, LoadFactor(m))
    \/ FracLess(LoadFactor(m), MIN_LOAD_FACTOR)

\* variant: a failed table insert appends a default-constructed bucket
Store_EmplaceDefault(m1, pair, rec, r) ==
    [m |-> [array |-> r.array, count |-> r.count,
            list |-> IF r.ok THEN m1.list
                     ELSE Append(m1.list, Pair(DefaultKey, DefaultValue))],
     rec |-> rec, called |-> TRUE, in_table |-> r.ok, swaps |-> r.swaps,
     load |-> LoadFactor(m1), safe |-> r.safe /\ (rec => m1.safe),
     ref |-> IF r.ok THEN [b |-> r.pos, l |-> 0]
             ELSE [b |-> ArraySize(r.array), l |-> Len(m1.list)]]

\* ForceInsert from line 399 on: m1 is the map after the load-factor step, rec
\* whether Reconstruct ran, r what b_array_.Insert returned.  The result is the
\* new map, rec, that ForceInsert was called, whether the table insert
\* succeeded and how many swaps it made, the load factor of the table the pair
\* is then inserted into, whether every Insert run by the call was safe, and
\* the returned reference as an iterator position
Store(m1, pair, rec, r) ==
    [m |-> [array |-> r.array, count |-> r.count,
            list |-> IF r.ok THEN m1.list ELSE Append(m1.list, pair)],
     rec |-> rec, called |-> TRUE, in_table |-> r.ok, swaps |-> r.swaps,
     load |-> LoadFactor(m1), safe |-> r.safe /\ (rec => m1.safe),
     ref |-> IF r.ok THEN [b |-> r.pos, l |-> 0]
             ELSE [b |-> ArraySize(r.array), l |-> Len(m1.list)]]

\* HashMap::ForceInsert
ForceInsert(m, pair) ==
    Only({Only({Store(m1, pair, NeedsReconstruct(m), r) :
                   r \in {Insert(m1, pair)}}) :
             m1 \in {IF NeedsReconstruct(m) THEN Reconstruct(m, TRUE, FALSE)
                     ELSE m}})

\* variant: insert overwrites the value of a key that is present
InsertIf_Overwrite(m, pair, it) ==
    IF it = end(m)
    THEN ForceInsert(m, pair)
    ELSE [m |-> IF it.b # ArraySize(m.array)
                THEN [m EXCEPT !.array[it.b + 1].val = pair.val]
                ELSE [m EXCEPT !.list[it.l + 1].val = pair.val],
          rec |-> FALSE, called |-> FALSE, in_table |-> FALSE,
          swaps |-> 0, load |-> LoadFactor(m), safe |-> TRUE, ref |-> end(m)]

\* variant: insert does not look at what find returned
InsertIf_NoFind(m, pair, it) == ForceInsert(m, pair)

\* HashMap::insert, it being the iterator find returned
InsertIf(m, pair, it) ==
    IF it = end(m)
    THEN ForceInsert(m, pair)
    ELSE [m |-> m, rec |-> FALSE, called |-> FALSE, in_table |-> FALSE,
          swaps |-> 0, load |-> LoadFactor(m), safe |-> TRUE, ref |-> end(m)]

\* HashMap::insert
MapInsert(m, pair) ==
    Only({InsertIf(m, pair, it) : it \in {find(m, pair.key)}})

\* variant: erase removes the first bucket of the list, not the one found
ListErase_Front(list, i) == Tail(list)

\* list_.erase(it) at 0-based position i
ListErase(list, i) == SubSeq(list, 1, i) \o SubSeq(list, i + 2, Len(list))

\* the loop of HashMap::erase over list_, i being the position of the key
EraseFromList(m, i) ==
    IF i < Len(m.list)
    THEN [m |-> [m EXCEPT !.list = ListErase(m.list, i)], where |-> "list"]
    ELSE [m |-> m, where |-> "none"]

\* the map once b_array_.Erase has run on its table with outcome r
Erased(m, r) == [array |-> r.array, count |-> r.count, list |-> m.list]

\* variant: erase forgets the overflow list
EraseIf_TableOnly(m, key, r) ==
    [m |-> Erased(m, r), where |-> IF r.ok THEN "table" ELSE "none"]

\* variant: erase shrinks the table as soon as the load factor allows it
EraseIf_ShrinkOnErase(m, key, r) ==
    IF r.ok
    THEN [m |-> IF NeedsReconstruct(Erased(m, r))
                THEN Reconstruct(Erased(m, r), TRUE, FALSE)
                ELSE Erased(m, r),
          where |-> "table"]
    ELSE Only({EraseFromList(Erased(m, r), i) :
                  i \in {ListFind(m.list, key)}})

\* HashMap::erase, r being what b_array_.Erase returned: the new map and where
\* the key was erased from
EraseIf(m, key, r) ==
    IF r.ok
    THEN [m |-> Erased(m, r), where |-> "table"]
    ELSE Only({EraseFromList(Erased(m, r), i) :
                  i \in {ListFind(m.list, key)}})

\* HashMap::erase
MapErase(m, key) == Only({EraseIf(m, key, r) : r \in {Erase(m, key)}})

\* what one insert call leaves: the map, and the history first, where first[k]
\* is the value of the insert(k, .) call that stored k (None when k was not
\* stored by insert since it was last erased); r is what HashMap::insert did
Recorded(g, pair, r) ==
    [m |-> r.m,
     first |-> IF r.called THEN [g.first EXCEPT ![pair.key] = pair.val]
               ELSE g.first,
     safe |-> g.safe /\ r.safe,
     r |-> r]

InsertStep(g, pair) ==
    Only({Recorded(g, pair, r) : r \in {MapInsert(g.m, pair)}})

\* HashMap(first, second, hash): insert pairs[lo .. hi] of the range in order,
\* the range split in halves to keep the evaluation shallow
RECURSIVE Construct(_, _, _, _)
Construct(g, pairs, lo, hi) ==
    IF lo > hi THEN g
    ELSE IF lo = hi
         THEN InsertStep(g, pairs[lo])
         ELSE Only({Construct(h, pairs, ((lo + hi) \div 2) + 1, hi) :
                       h \in {Construct(g, pairs, lo, (lo + hi) \div 2)}})

\* -------------------------------------------------------------- the driver
\* most free-key pairs handed to the range constructor
MaxInit == 3

\* values passed with a key: every value for key 0, only 1 for the others
ValuesFor(k) == IF k = DefaultKey THEN Values ELSE {1}

InitPairs == UNION {{Pair(k, v) : v \in ValuesFor(k)} : k \in FreeKeys}

FreeLists(n) == UNION {[1..j -> InitPairs] : j \in 0..n}

\* the first n bulk keys, each with value 1
BulkRun(n) == [i \in 1..n |-> Pair(BulkStride * i, 1)]

\* the first n end keys, each with value 1
EndRun(n) == [i \in 1..n |-> Pair(BulkStride * i - 1, 1)]

\* the fill keys, each with value 1
FillRun == [i \in 1..MaxFill |-> Pair(NEXT + i, 1)]

\* ranges handed to the constructor: up to MaxInit free-key pairs, or a run of
\* MaxBulk - 1 .. MaxBulk + 1 bulk keys with at most one free-key pair before
\* and after it, or the longest run of bulk keys followed by the fill keys, or
\* the longest run of end keys
InitLists ==
    FreeLists(MaxInit)
        \cup {x[1] \o BulkRun(x[2]) \o x[3] :
                 x \in FreeLists(1) \X ((MaxBulk - 1)..(MaxBulk + 1))
                           \X FreeLists(1)}
        \cup {BulkRun(MaxBulk + 1) \o FillRun, EndRun(MaxBulk + 1)}

\* keys the calls after construction are issued for
DriverKeys == FreeKeys

\* erase is also called for the last bulk key
EraseKeys == DriverKeys \cup {BulkStride * (MaxBulk + 1)}

\* (key, value) arguments of insert calls
InsertArgs == UNION {{Pair(k, v) : v \in ValuesFor(k)} : k \in DriverKeys}

NoHistory == [k \in Keys |-> None]

\* what ForceInsert did in a call: not called, or whether Reconstruct ran,
\* whether the table insert succeeded, its number of swaps, and the load
\* factor b_array_ had when Insert was called on it (<<0, 1>> when it was not)
NoForce ==
    [called |-> FALSE, rec |-> FALSE, in_table |-> FALSE, swaps |-> 0,
     load |-> <<0, 1>>, safe |-> TRUE]

Forced(r) ==
    [called |-> r.called, rec |-> r.rec, in_table |-> r.in_table,
     swaps |-> r.swaps, load |-> IF r.called THEN r.load ELSE <<0, 1>>,
     safe |-> r.safe]

\* where an iterator returned by find points
Where(m, it) ==
    IF it = end(m) THEN "none"
    ELSE IF it.b # ArraySize(m.array) THEN "table" ELSE "list"

\* the result of the last call: op and its arguments (arg is the range given
\* to the constructor), whether the key was found by the call, where (table,
\* list, none) the call found, erased or stored the pair, the key and value
\* the returned iterator/reference denotes, whether std::out_of_range was
\* thrown, and what ForceInsert did
Result(op, key, val, arg, found, where, rkey, res, err, force) ==
    [op |-> op, key |-> key, val |-> val, arg |-> arg, found |-> found,
     where |-> where, rkey |-> rkey, res |-> res, err |-> err, force |-> force]

\* the result of a call that returns the iterator it (find) or what it points
\* to (at, operator[] on a present key)
ReadResult(op, m, key, it, err) ==
    Result(op, key, None, <<>>, it # end(m), Where(m, it),
           IF it # end(m) THEN IterDeref(m, it).key ELSE None,
           IF it # end(m) THEN IterDeref(m, it).val ELSE None,
           err, NoForce)

SetMap(m) ==
    /\ array_' = m.array
    /\ pairs_count_' = m.count
    /\ list_' = m.list

\* the state after HashMap(first, second) on one of the ranges
Constructed(ranges) ==
    \E pairs \in ranges :
        \E g \in {Construct([m |-> EmptyMap, first |-> NoHistory,
                             safe |-> TRUE], pairs, 1, Len(pairs))} :
            /\ array_ = g.m.array
            /\ pairs_count_ = g.m.count
            /\ list_ = g.m.list
            /\ first_ins = g.first
            /\ ret = Result("construct", None, None, pairs, FALSE, "none",
                            None, None, FALSE,
                            [NoForce EXCEPT !.safe = g.safe])

Init == Constructed(InitLists)

\* m.insert({key, val})
insert(key, val) ==
    \E g \in {InsertStep([m |-> Map, first |-> first_ins, safe |-> TRUE],
                         Pair(key, val))} :
        /\ SetMap(g.m)
        /\ first_ins' = g.first
        /\ ret' = Result("insert", key, val, <<>>, ~g.r.called,
                         Where(g.m, g.r.ref), None, None, FALSE, Forced(g.r))

\* m.erase(key)
erase(key) ==
    \E r \in {MapErase(Map, key)} :
        /\ SetMap(r.m)
        /\ first_ins' = [first_ins EXCEPT ![key] = None]
        /\ ret' = Result("erase", key, None, <<>>, r.where # "none", r.where,
                         None, None, FALSE, NoForce)

\* m.find(key)
lookup(key) ==
    \E it \in {find(Map, key)} :
        /\ ret' = ReadResult("find", Map, key, it, FALSE)
        /\ UNCHANGED <<array_, pairs_count_, list_, first_ins>>

\* m.at(key)
at(key) ==
    \E it \in {find(Map, key)} :
        /\ ret' = ReadResult("at", Map, key, it, it = end(Map))
        /\ UNCHANGED <<array_, pairs_count_, list_, first_ins>>

\* m[key]
subscript(key) ==
    \E it \in {find(Map, key)} :
        IF it = end(Map)
        THEN \E r \in {ForceInsert(Map, Pair(key, DefaultValue))} :
                 /\ SetMap(r.m)
                 /\ ret' = Result("subscript", key, None, <<>>, FALSE,
                                  Where(r.m, r.ref), IterDeref(r.m, r.ref).key,
                                  IterDeref(r.m, r.ref).val, FALSE, Forced(r))
                 /\ UNCHANGED first_ins
        ELSE /\ ret' = ReadResult("subscript", Map, key, it, FALSE)
             /\ UNCHANGED <<array_, pairs_count_, list_, first_ins>>

\* m.clear(); found and where tell whether and where the map held pairs
clear ==
    /\ \E m \in {Reconstruct(Map, FALSE, TRUE)} : SetMap(m)
    /\ first_ins' = NoHistory
    /\ ret' = Result("clear", None, None, <<>>, ~empty(Map),
                     IF Len(list_) > 0 THEN "list"
                     ELSE IF pairs_count_ > 0 THEN "table" ELSE "none",
                     None, None, FALSE, NoForce)

\* the driver ends a run with its first call that only reads (find, at,
\* operator[] on a present key): such a call leaves the map as it is, so the
\* calls that could follow it are those that could replace it
Continue == ret.op \notin {"find", "at"} /\ ~(ret.op = "subscript" /\ ret.found)

Next ==
    \/ \E p \in InsertArgs : Continue /\ insert(p.key, p.val)
    \/ \E k \in EraseKeys : Continue /\ erase(k)
    \/ \E k \in DriverKeys : Continue /\ lookup(k)
    \/ \E k \in DriverKeys : Continue /\ at(k)
    \/ \E k \in DriverKeys : Continue /\ subscript(k)
    \/ Continue /\ clear

Spec == Init /\ [][Next]_vars

\* ------------------------------------------------------ observed quantities
\* everything below reads the representation directly, not through find
Capacity(m) == ArraySize(m.array) - NEXT + 1

Ideal(m, key) == hash_func_(key) % Capacity(m)

Occupied(m) == {j \in 0..(ArraySize(m.array) - 1) : Slot(m.array, j).occ}

TableKeys(m) == {Slot(m.array, j).key : j \in Occupied(m)}

ListKeys(m) == {m.list[i].key : i \in 1..Len(m.list)}

\* the pairs the map holds
Entries(m) ==
    {Pair(Slot(m.array, j).key, Slot(m.array, j).val) : j \in Occupied(m)}
        \cup {m.list[i] : i \in 1..Len(m.list)}

Has(m, k) == \E e \in Entries(m) : e.key = k

ValuesOf(m, k) == {e.val : e \in {x \in Entries(m) : x.key = k}}

\* the pairs of all keys but k
Others(m, k) == {e \in Entries(m) : e.key # k}

\* what m.find(k) reports
Found(m, k) == find(m, k) # end(m)

FoundValue(m, k) == IterDeref(m, find(m, k)).val

MapVars == <<array_, pairs_count_, list_>>

\* ------------------------------------------------------- the draining driver
\* a second driver builds the map from a run of bulk keys alone, then erases
\* some of the bulk keys, the smallest one the map holds first, and then makes
\* the calls of the first driver: the erases empty the table under the
\* overflow list and bring the load factor below MIN_LOAD_FACTOR
DrainLists == {BulkRun(MaxBulk + 1)}

InitDrain == Constructed(DrainLists)

\* (key, value) arguments of the insert calls of this driver
DrainArgs == {Pair(k, 1) : k \in DriverKeys}

\* the bulk keys the map holds
BulkHeld(m) == {k \in BulkKeys : Has(m, k)}

\* the erases of bulk keys come first
Draining ==
    \/ ret.op = "construct"
    \/ ret.op = "erase" /\ ret.key \in BulkKeys

drain ==
    /\ Draining
    /\ BulkHeld(Map) # {}
    /\ erase(Least(BulkHeld(Map)))

NextDrain ==
    \/ Continue /\ drain
    \/ \E p \in DrainArgs : Continue /\ insert(p.key, p.val)
    \/ \E k \in DriverKeys : Continue /\ erase(k)
    \/ \E k \in DriverKeys : Continue /\ lookup(k)
    \/ \E k \in DriverKeys : Continue /\ at(k)
    \/ \E k \in DriverKeys : Continue /\ subscript(k)
    \/ Continue /\ clear

SpecDrain == InitDrain /\ [][NextDrain]_vars

\* ------------------------------------------------------------------- claims
\* C1: every occupied slot j holding key k satisfies
\* ideal(k) <= j < ideal(k) + NEXT, with ideal(k) = hash(k) mod capacity, in
\* every state reached by construction, insert, operator[], erase and clear.
Placement(m) ==
    \A j \in Occupied(m) :
        /\ Ideal(m, Slot(m.array, j).key) <= j
        /\ j < Ideal(m, Slot(m.array, j).key) + NEXT

C1_Placement == Placement(Map)

\* an insert that ran Reconstruct and then placed its pair after a swap
C1_Witness ==
    /\ ret.op = "insert"
    /\ ret.force.rec
    /\ ret.force.in_table
    /\ ret.force.swaps > 0

\* C2: no key occurs twice in the table, twice in the overflow list, or in
\* both; pairs_count_ is the number of occupied slots; size() is that number
\* plus the length of the overflow list.
C2_UniqueAndSize ==
    /\ \A i, j \in Occupied(Map) :
           Slot(array_, i).key = Slot(array_, j).key => i = j
    /\ \A i, j \in 1..Len(list_) : list_[i].key = list_[j].key => i = j
    /\ TableKeys(Map) \cap ListKeys(Map) = {}
    /\ pairs_count_ = Cardinality(Occupied(Map))
    /\ size(Map) = Cardinality(Occupied(Map)) + Len(list_)

\* a key was just erased while the table and a two-entry overflow list hold pairs
C2_Witness ==
    /\ ret.op = "erase"
    /\ ret.found
    /\ Len(list_) >= 2
    /\ pairs_count_ > 0

\* C3 as stated: find returns the value of the LAST insert(k, .) call, so
\* right after any insert(k, v) call find(k) returns v.
C3_RoundTripLast ==
    ret.op = "insert" =>
        Found(Map, ret.key) /\ FoundValue(Map, ret.key) = ret.val

\* C3 amended: for every key stored by an insert call and not erased since,
\* find returns the value of the insert(k, .) call that stored it, i.e. the
\* first one since k was last absent.
C3_RoundTripFirst ==
    \A k \in Keys :
        first_ins[k] # None =>
            Found(Map, k) /\ FoundValue(Map, k) = first_ins[k]

\* a second insert call for a key, with another value than the call that
\* stored it, while the overflow list holds a pair
C3_Witness ==
    /\ ret.op = "insert"
    /\ ret.found
    /\ first_ins[ret.key] # None
    /\ first_ins[ret.key] # ret.val
    /\ Len(list_) > 0

\* index of the first pair with key k in a sequence of pairs
FirstIndex(pairs, k) ==
    CHOOSE i \in 1..Len(pairs) :
        /\ pairs[i].key = k
        /\ \A j \in 1..(i - 1) : pairs[j].key # k

\* a map built from a range holds, for every key of the range, the value of
\* the first pair with that key, and counts every key once
ConstructFirstWins ==
    ret.op = "construct" =>
        /\ \A i \in 1..Len(ret.arg) :
               ValuesOf(Map, ret.arg[i].key)
                   = {ret.arg[FirstIndex(ret.arg, ret.arg[i].key)].val}
        /\ size(Map) = Cardinality({ret.arg[i].key : i \in 1..Len(ret.arg)})

\* insert of a present key changes nothing, and at / operator[] return the
\* stored value
InsertPresentNoop ==
    /\ (ret'.op = "insert" /\ Has(Map, ret'.key)) =>
           /\ UNCHANGED MapVars
           /\ ~ret'.force.called
           /\ size(Map') = size(Map)
           /\ ValuesOf(Map', ret'.key) = ValuesOf(Map, ret'.key)
    /\ (ret'.op \in {"at", "subscript"} /\ Has(Map, ret'.key)) =>
           ValuesOf(Map, ret'.key) = {ret'.res}

\* C4: insert(k, v2) on a map that holds k with value v1 leaves the value v1
\* and size() unchanged, at(k) and operator[] then return v1, and a map built
\* from a range with a repeated key keeps the first pair's value and counts
\* the key once.
C4_FirstInsertWins == []ConstructFirstWins /\ [][InsertPresentNoop]_vars

\* an insert call for a present key with a value other than the stored one
C4_Witness ==
    /\ ret.op = "insert"
    /\ ret.found
    /\ ret.val \notin ValuesOf(Map, ret.key)

\* C5: insert (or operator[]) of an absent key k always stores it: afterwards
\* find(k) returns the inserted value, size() is one larger, every other key
\* keeps its value, and k is in the overflow list exactly when the table
\* insert failed, in the table otherwise.
InsertAbsentStores ==
    (ret'.op \in {"insert", "subscript"} /\ ~Has(Map, ret'.key)) =>
        LET k == ret'.key
            v == IF ret'.op = "insert" THEN ret'.val ELSE DefaultValue
        IN /\ ret'.force.called
           /\ ValuesOf(Map', k) = {v}
           /\ Found(Map', k)
           /\ FoundValue(Map', k) = v
           /\ size(Map') = size(Map) + 1
           /\ Others(Map', k) = Others(Map, k)
           /\ (k \in ListKeys(Map')) <=> ~ret'.force.in_table
           /\ (k \in TableKeys(Map')) <=> ret'.force.in_table

C5_InsertAbsent == [][InsertAbsentStores]_vars

\* an insert whose table insert failed after a swap, so the pair went to the
\* overflow list
C5_Witness ==
    /\ ret.op = "insert"
    /\ ret.force.called
    /\ ~ret.force.in_table
    /\ ret.force.swaps > 0
    /\ ret.key \in ListKeys(Map)

\* C6: erase of a present key k makes find(k) fail and size() one smaller and
\* leaves every other key findable with its value; an insert(k, v) right after
\* it stores k and find(k) returns v.
EraseThenReinsert ==
    /\ (ret'.op = "erase" /\ Has(Map, ret'.key)) =>
           /\ ~Found(Map', ret'.key)
           /\ ~Has(Map', ret'.key)
           /\ size(Map') = size(Map) - 1
           /\ Others(Map', ret'.key) = Others(Map, ret'.key)
           /\ \A e \in Others(Map, ret'.key) :
                  Found(Map', e.key) /\ FoundValue(Map', e.key) = e.val
    /\ (ret.op = "erase" /\ ret.found /\ ret'.op = "insert"
            /\ ret'.key = ret.key) =>
           /\ ret'.force.called
           /\ Found(Map', ret'.key)
           /\ FoundValue(Map', ret'.key) = ret'.val

C6_EraseReinsert == [][EraseThenReinsert]_vars

\* a key was just erased from the overflow list, which still holds a pair
C6_Witness ==
    /\ ret.op = "erase"
    /\ ret.where = "list"
    /\ Len(list_) >= 1

\* C7: erase of a key that is in neither the table nor the overflow list
\* leaves the slots, pairs_count_, the overflow list, the capacity and size()
\* unchanged.
EraseAbsentNoop ==
    (ret'.op = "erase" /\ ~Has(Map, ret'.key)) =>
        /\ UNCHANGED MapVars
        /\ Capacity(Map') = Capacity(Map)
        /\ size(Map') = size(Map)

C7_EraseAbsent == [][EraseAbsentNoop]_vars

\* erase of an absent key whose stale copy still sits in an unoccupied slot,
\* with pairs in the table and in the overflow list
C7_Witness ==
    /\ ret.op = "erase"
    /\ ~ret.found
    /\ ret.key # DefaultKey
    /\ \E j \in 0..(ArraySize(array_) - 1) :
           ~Slot(array_, j).occ /\ Slot(array_, j).key = ret.key
    /\ Len(list_) > 0

\* C8: at(k) returns the stored value when k is in the table or the overflow
\* list and throws exactly when it is in neither; it never changes the map and
\* never runs ForceInsert; no other call throws.
AtReadsOnly ==
    /\ ret'.op = "at" =>
           /\ ret'.err <=> ~Has(Map, ret'.key)
           /\ Has(Map, ret'.key) =>
                  /\ ValuesOf(Map, ret'.key) = {ret'.res}
                  /\ ret'.rkey = ret'.key
           /\ UNCHANGED MapVars
           /\ ~ret'.force.called
    /\ ret'.op # "at" => ~ret'.err

C8_At == [][AtReadsOnly]_vars

\* at returned the value of a key held in the overflow list
C8_Witness ==
    /\ ret.op = "at"
    /\ ~ret.err
    /\ ret.where = "list"

\* C9: operator[] on an absent key stores (k, ValueType()) through
\* ForceInsert, size() grows by one and the returned reference denotes the
\* default value stored under k; on a present key it returns the stored value
\* and changes nothing.
SubscriptVivifies ==
    ret'.op = "subscript" =>
        IF Has(Map, ret'.key)
        THEN /\ UNCHANGED MapVars
             /\ ~ret'.force.called
             /\ ValuesOf(Map, ret'.key) = {ret'.res}
             /\ ret'.rkey = ret'.key
        ELSE /\ ret'.force.called
             /\ size(Map') = size(Map) + 1
             /\ ValuesOf(Map', ret'.key) = {DefaultValue}
             /\ ret'.res = DefaultValue
             /\ ret'.rkey = ret'.key

C9_Subscript == [][SubscriptVivifies]_vars

\* operator[] stored an absent key in a slot freed by a swap
C9_Witness ==
    /\ ret.op = "subscript"
    /\ ret.force.called
    /\ ret.force.in_table
    /\ ret.force.swaps > 0

\* C10 as stated: after clear() the table has the initial capacity and the
\* overflow list is empty.
C10_ClearResetsCapacity ==
    ret.op = "clear" => Capacity(Map) = INITIAL_SIZE /\ list_ = <<>>

\* C10 amended: clear() leaves a table of the capacity the table had before
\* the call, and an empty overflow list.
ClearKeepsCapacity ==
    ret'.op = "clear" =>
        /\ Capacity(Map') = Capacity(Map)
        /\ ArraySize(array_') = Capacity(Map) + NEXT - 1
        /\ list_' = <<>>

C10_ClearKeepsCapacity == [][ClearKeepsCapacity]_vars

\* clear() was called on a table that had grown
C10_Witness ==
    /\ ret.op = "clear"
    /\ Capacity(Map) > INITIAL_SIZE

\* C11: after clear() size() is 0, no slot is occupied, the overflow list is
\* empty and find fails for every key, also for keys the overflow list held.
C11_ClearEmpties ==
    ret.op = "clear" =>
        /\ size(Map) = 0
        /\ empty(Map)
        /\ pairs_count_ = 0
        /\ Occupied(Map) = {}
        /\ list_ = <<>>
        /\ \A k \in Keys : ~Found(Map, k) /\ ~Has(Map, k)

\* clear() was called on a map with pairs in the overflow list, and the
\* cleared table still carries the stale pair of a bulk key
C11_Witness ==
    /\ ret.op = "clear"
    /\ ret.where = "list"
    /\ \E j \in 0..(ArraySize(array_) - 1) : Slot(array_, j).key \in BulkKeys

\* a fraction lies within [MIN_LOAD_FACTOR, MAX_LOAD_FACTOR]
WithinBounds(load) ==
    ~FracLess(load, MIN_LOAD_FACTOR) /\ ~FracLess(MAX_LOAD_FACTOR, load)

\* C12: right after a Reconstruct run by ForceInsert, before the pending pair
\* is inserted, the load factor of the new table lies within [0.1, 0.5].
C12_LoadFactorBound ==
    (ret.op \in {"insert", "subscript"} /\ ret.force.called /\ ret.force.rec)
        => WithinBounds(ret.force.load)

\* the pairs of the occupied slots by increasing slot index
TablePairs(m) ==
    [i \in 1..Cardinality(Occupied(m)) |->
        LET j == CHOOSE x \in Occupied(m) :
                     Cardinality({y \in Occupied(m) : y < x}) = i - 1
        IN Pair(Slot(m.array, j).key, Slot(m.array, j).val)]

\* the sequence seq is what a walk over m must visit
VisitsAll(m, seq) ==
    /\ seq = TablePairs(m) \o m.list
    /\ Len(seq) = size(m)
    /\ {seq[i] : i \in 1..Len(seq)} = Entries(m)
    /\ \A i, j \in 1..Len(seq) : seq[i].key = seq[j].key => i = j

\* C13: in every reachable state the walk from begin() to end() visits the
\* pairs of the occupied slots by increasing slot index, skipping unoccupied
\* slots, then the pairs of the overflow list in list order: size() pairs,
\* every key of the map once and nothing else, also when no slot is occupied
\* or the list is empty.
C13_Iteration == \A seq \in {Iterate(Map)} : VisitsAll(Map, seq)

\* a table with an unoccupied slot between two occupied ones, its first slot
\* unoccupied, and a pair in the overflow list
C13_Witness ==
    /\ Len(list_) > 0
    /\ ~Slot(array_, 0).occ
    /\ \E i, k \in Occupied(Map) :
           \E j \in (i + 1)..(k - 1) : ~Slot(array_, j).occ

\* m holds every key once
UniqueKeys(m) == Cardinality({e.key : e \in Entries(m)}) = size(m)

\* C14: in every reachable state from which ForceInsert would run Reconstruct,
\* the map Reconstruct() leaves holds the same key-value pairs and has the
\* same size() as before: every old pair is in the new table or in the new
\* overflow list, none is lost or duplicated.
C14_ReconstructPreserves ==
    ~WithinBounds(<<pairs_count_, ArraySize(array_)>>) =>
        \A r \in {Reconstruct(Map, TRUE, FALSE)} :
            /\ Entries(r) = Entries(Map)
            /\ size(r) = size(Map)
            /\ r.count = Cardinality(Occupied(r))
            /\ UniqueKeys(r)
            /\ Placement(r)

\* an insert ran a Reconstruct that doubled the capacity to 128 and had to
\* route a bulk key to the new overflow list
C14_Witness ==
    /\ ret.op = "insert"
    /\ ret.force.rec
    /\ Capacity(Map) = 4 * INITIAL_SIZE
    /\ ListKeys(Map) \cap BulkKeys # {}

\* a call whose ForceInsert ran Reconstruct
Rebuilt(r) == r.op \in {"insert", "subscript"} /\ r.force.called /\ r.force.rec

\* the capacity a Reconstruct run by ForceInsert leaves
CapacityRule ==
    Rebuilt(ret') =>
        Capacity(Map') =
            IF 2 * pairs_count_ > ArraySize(array_)
            THEN 2 * Capacity(Map)
            ELSE IF Capacity(Map) \div 2 < INITIAL_SIZE
                 THEN INITIAL_SIZE
                 ELSE Capacity(Map) \div 2

CapacityFloor ==
    /\ Capacity(Map) >= INITIAL_SIZE
    /\ ArraySize(array_) = Capacity(Map) + NEXT - 1
    /\ ArraySize(array_) >= INITIAL_SIZE + NEXT - 1

\* C15: a Reconstruct run by ForceInsert makes the capacity twice the old one
\* when the load factor exceeded 0.5 and half the old one when it was below
\* 0.1, but never less than 32; in every reachable state the capacity is at
\* least 32 and the array has capacity + NEXT - 1 slots.
C15_CapacityRule == []CapacityFloor /\ [][CapacityRule]_vars

\* operator[] ran a Reconstruct that doubled the capacity from 32 to 64
C15_Witness ==
    /\ ret.op = "subscript"
    /\ ret.force.rec
    /\ Capacity(Map) = 2 * INITIAL_SIZE

\* what a call that runs ForceInsert does about the load factor
TriggerRule ==
    (ret'.op \in {"insert", "subscript"} /\ ret'.force.called) =>
        /\ ret'.force.rec <=>
               \/ 2 * pairs_count_ > ArraySize(array_)
               \/ 10 * pairs_count_ < ArraySize(array_)
        /\ ~ret'.force.rec =>
               /\ ArraySize(array_') = ArraySize(array_)
               /\ ret'.force.load = <<pairs_count_, ArraySize(array_)>>
        /\ ret'.force.rec =>
               Capacity(Map') \in
                   {2 * Capacity(Map), Capacity(Map) \div 2, INITIAL_SIZE}
        /\ ret'.force.load[2] = ArraySize(array_')
        /\ ret'.force.load[1] =
               pairs_count_' - (IF ret'.force.in_table THEN 1 ELSE 0)
        /\ ret'.force.in_table <=> ret'.key \in TableKeys(Map')
        /\ ~ret'.force.in_table <=> ret'.key \in ListKeys(Map')

\* C16: ForceInsert takes the load factor pairs_count_ / array_.size() before
\* it calls Insert, runs Reconstruct, once, exactly when that value is above
\* 0.5 or below 0.1, and then stores the new pair in the table Reconstruct
\* left or in the overflow list.
C16_ResizeTrigger == [][TriggerRule]_vars

\* an insert ran Reconstruct and then had to put its pair in the overflow list
C16_Witness ==
    /\ ret.op = "insert"
    /\ ret.force.rec
    /\ ~ret.force.in_table
    /\ ret.key \in ListKeys(Map)

\* the table is the old one but for the occupancy flag of at most one slot,
\* and the list is the old one but for at most one removed bucket
SameTable ==
    /\ ArraySize(array_') = ArraySize(array_)
    /\ \/ array_' = array_
       \/ \E j \in Occupied(Map) :
              array_' = [array_ EXCEPT ![j + 1].occ = FALSE]
    /\ \/ list_' = list_
       \/ \E i \in 1..Len(list_) : list_' = ListErase(list_, i - 1)

\* calls that do not insert an absent key leave the capacity and the table
\* alone; a low load factor shrinks the table at the next insert of an absent
\* key
CapacityFrame ==
    /\ (\/ ret'.op \in {"erase", "find", "at"}
        \/ ret'.op \in {"insert", "subscript"} /\ Has(Map, ret'.key)) =>
           /\ Capacity(Map') = Capacity(Map)
           /\ SameTable
           /\ ~ret'.force.called
    /\ Capacity(Map') # Capacity(Map) =>
           /\ Rebuilt(ret')
           /\ ~Has(Map, ret'.key)
    /\ (/\ ret'.op \in {"insert", "subscript"}
        /\ ~Has(Map, ret'.key)
        /\ 10 * pairs_count_ < ArraySize(array_)
        /\ Capacity(Map) > INITIAL_SIZE) =>
           /\ Rebuilt(ret')
           /\ Capacity(Map') = Capacity(Map) \div 2

\* C17: the capacity changes only in a Reconstruct run for the insert of an
\* absent key: erase, find, at, and insert or operator[] of a present key
\* leave the capacity, the table and the overflow list alone, also when erases
\* have brought the load factor below 0.1; the table then shrinks at the next
\* insert of an absent key.
C17_CapacityOnlyOnInsert == [][CapacityFrame]_vars

\* an erase left a table of capacity 64 with a load factor below 0.1
C17_Witness ==
    /\ ret.op = "erase"
    /\ ret.found
    /\ Capacity(Map) > INITIAL_SIZE
    /\ pairs_count_ > 0
    /\ 10 * pairs_count_ < ArraySize(array_)

\* the pairs held in the occupied slots of an array
TableEntries(array) ==
    {Pair(array[i].key, array[i].val) : i \in {j \in 1..Len(array) : array[j].occ}}

\* Insert of an absent key on the table of the current state, when it fails
FailedInsertIntact ==
    \A k \in Keys \ TableKeys(Map) :
        \A r \in {Insert(Map, Pair(k, 1))} :
            ~r.ok =>
                /\ r.count = pairs_count_
                /\ TableEntries(r.array) = TableEntries(array_)
                /\ Len(r.array) = Len(array_)
                /\ Cardinality({j \in 1..Len(r.array) : r.array[j].occ})
                       = pairs_count_
                /\ Placement([array |-> r.array, count |-> r.count,
                              list |-> list_])

\* a call whose ForceInsert did not rebuild the table and whose Insert failed
FailedCallIntact ==
    (/\ ret'.op \in {"insert", "subscript"}
     /\ ret'.force.called
     /\ ~ret'.force.rec
     /\ ~ret'.force.in_table) =>
        /\ pairs_count_' = pairs_count_
        /\ TableEntries(array_') = TableEntries(array_)
        /\ ret'.key \notin TableKeys(Map')
        /\ Placement(Map')

\* C18: when Insert reports failure (no unoccupied slot from the ideal index
\* to the end of the array, or no slot that may be moved), the key is not in
\* the table, pairs_count_ is unchanged and the occupied slots hold the same
\* pairs as before; the swaps made before the failure left every pair inside
\* its own window.
C18_FailedInsert == []FailedInsertIntact /\ [][FailedCallIntact]_vars

\* operator[] put its pair in the overflow list after Insert had swapped a
\* pair and then found no slot to move
C18_Witness ==
    /\ ret.op = "subscript"
    /\ ret.force.called
    /\ ~ret.force.in_table
    /\ ret.force.swaps > 0

\* C19 as stated: every key in the overflow list is one that Insert could not
\* place in the current table.
C19_OverflowExact ==
    \A i \in 1..Len(list_) : ~Insert(Map, list_[i]).ok

\* how keys enter and leave the overflow list
OverflowMoves ==
    /\ \A k \in ListKeys(Map') \ ListKeys(Map) :
           \/ /\ ret'.op \in {"insert", "subscript"}
              /\ ret'.key = k
              /\ ret'.force.called
              /\ ~ret'.force.in_table
              /\ k \notin TableKeys(Map')
              /\ ~Insert(Map', Pair(k, 1)).ok
           \/ /\ Rebuilt(ret')
              /\ Has(Map, k)
    /\ \A k \in ListKeys(Map) \ ListKeys(Map') :
           \/ ret'.op = "erase" /\ ret'.key = k
           \/ ret'.op = "clear"
           \/ Rebuilt(ret') /\ k \in TableKeys(Map')

OverflowLive ==
    /\ ListKeys(Map) \cap TableKeys(Map) = {}
    /\ \A i \in 1..Len(list_) :
           Found(Map, list_[i].key)
               /\ FoundValue(Map, list_[i].key) = list_[i].val

\* C19 amended: the overflow list holds live keys that are not in the table.
\* A key enters it only when Insert failed for it: in ForceInsert, and right
\* after that call Insert of the key on the current table still fails, or in
\* the loop of a Reconstruct.  A key leaves it only by erase of that key, by
\* clear() or by a Reconstruct that places it in the table: after an erase has
\* freed a slot of its window it stays in the list.
C19_OverflowOnFailure == []OverflowLive /\ [][OverflowMoves]_vars

\* an erase freed a table slot that Insert would now use for a key of the
\* overflow list
C19_Witness ==
    /\ ret.op = "erase"
    /\ ret.where = "table"
    /\ \E i \in 1..Len(list_) : Insert(Map, list_[i]).ok

\* the unoccupied slots that still hold the key of a pair that was erased or
\* moved away
StaleSlots(m) ==
    {j \in 0..(ArraySize(m.array) - 1) :
        ~IsOccupied(Slot(m.array, j)) /\ Slot(m.array, j).key # DefaultKey}

\* C20: the displacement loop of Insert reads the key of occupied slots only
\* (every slot between the ideal slot and the free slot is occupied), its scan
\* never starts below slot 0, and every swap lowers the free slot: this holds
\* of every Insert run by the constructor, by insert and operator[] and by
\* the Reconstruct they run, and of the Insert of any key the table lacks.
C20_ScanReadsOccupied ==
    /\ ret.force.safe
    /\ \A k \in Keys \ TableKeys(Map) : Insert(Map, Pair(k, 1)).safe

\* an insert displaced pairs in a table that has an unoccupied slot still
\* holding the key of a pair that was erased or moved away
C20_Witness ==
    /\ ret.op = "insert"
    /\ ret.force.called
    /\ ret.force.swaps > 0
    /\ ret.force.safe
    /\ StaleSlots(Map) # {}

TypeOK ==
    /\ pairs_count_ \in Nat
    /\ ArraySize(array_) >= NEXT
====
